---- MODULE Spec2Model ----
(***************************************************************************)
(* Gann time cycle analyzer (streamlit_app.py): one run of the script,     *)
(* from the widgets' values to the tables, the CSV and the summary.        *)
(*                                                                         *)
(* Numbers.  A price is a float; the model counts it in half units (the    *)
(* integer P stands for the price P/2), so that 210.5 and 501/2 = 250.5    *)
(* are values of the model.  scaled = price / d is the exact rational      *)
(* <<P, 2*d>>.  A date is a day ordinal (datetime at midnight), as         *)
(* date.toordinal() numbers it.                                            *)
(***************************************************************************)
EXTENDS Integers, Sequences, FiniteSets, TLC

VARIABLES
    pc,               \* position of the script
    swings,           \* list of [name, price, date]
    selected_angles,  \* list of the chosen angles, in the order chosen
    cluster_window,   \* +- days
    max_table_rows,   \* rows of the main table
    rows,             \* the projections as emitted
    df,               \* the data frame: sorted, then annotated
    cluster_flags,    \* list of booleans, one per row of df
    table,            \* what st.dataframe shows
    cluster_df,       \* the clustered rows
    csv,              \* the exported file
    summary,          \* the closing lines
    scale_in,         \* argument of the scale_price call under study
    scale_out         \* its result

vars == <<pc, swings, selected_angles, cluster_window, max_table_rows, rows, df,
          cluster_flags, table, cluster_df, csv, summary, scale_in, scale_out>>

(***************************************************************************)
(* Bounds of the model                                                     *)
(***************************************************************************)
MaxDateShift == 1     \* swing 2 is dated the default date plus 0..MaxDateShift days
MaxWindow == 2        \* cluster_window ranges over 1..MaxWindow
MaxTableRows == 6     \* max_table_rows ranges over MinTableRows..MaxTableRows
ScaleSpread == 5      \* scale_price is called within ScaleSpread half units of each rung

None == "None"
\* an output the run has not produced
NotShown == [shown |-> FALSE]

(***************************************************************************)
(* Calendar (datetime): ordinals and year-month-day                        *)
(***************************************************************************)
IsLeap(y) == (y % 4 = 0) /\ ((y % 100 # 0) \/ (y % 400 = 0))

DaysInMonth(y, m) ==
    IF m = 2 THEN (IF IsLeap(y) THEN 29 ELSE 28)
    ELSE IF m \in {4, 6, 9, 11} THEN 30 ELSE 31

DaysBeforeMonth(y, m) ==
    <<0, 31, 59, 90, 120, 151, 181, 212, 243, 273, 304, 334>>[m]
        + (IF m > 2 /\ IsLeap(y) THEN 1 ELSE 0)

DaysBeforeYear(y) ==
    (y - 1) * 365 + ((y - 1) \div 4) - ((y - 1) \div 100) + ((y - 1) \div 400)

\* datetime(y, m, d) as a day ordinal
ToOrdinal(y, m, d) == DaysBeforeYear(y) + DaysBeforeMonth(y, m) + d

\* the year, month and day of a day ordinal
FromOrdinal(n) ==
    LET y == CHOOSE yy \in (n \div 366)..((n \div 365) + 1) :
                 DaysBeforeYear(yy) < n /\ n <= DaysBeforeYear(yy + 1)
        k == n - DaysBeforeYear(y)
        m == CHOOSE mm \in 1..12 :
                 DaysBeforeMonth(y, mm) < k /\ k <= DaysBeforeMonth(y, mm) + DaysInMonth(y, mm)
    IN <<y, m, k - DaysBeforeMonth(y, m)>>

\* datetime + timedelta(days = n)
AddDays(date, n) == date + n

\* (d_i - d_j).days
DaysBetween(di, dj) == di - dj

Abs(x) == IF x < 0 THEN -x ELSE x

(***************************************************************************)
(* Inputs                                                                  *)
(***************************************************************************)
all_gann_angles == <<15, 21, 28, 30, 45, 49, 55, 60, 72, 81, 90, 99, 120, 144, 180>>

DefaultDate == ToOrdinal(2025, 4, 7)

MinWindow == 1
MinTableRows == 5

\* Prices (in half units) a swing takes in the model: swing 1 covers the
\* signs, the halves and the rungs /1 and /2; swings 2 and 3 stay within a
\* few days of it.
SwingPrices ==
    <<{-3, -1, 0, 1, 3, 420, 421, 1002}, {2, 422}, {4, 424}>>

\* Angles the model lets the user pick
ModelAngles ==
    {a \in {all_gann_angles[i] : i \in 1..Len(all_gann_angles)} : a \in {60, 90, 120}}

AngleChoices ==
    {<<>>} \cup {<<a>> : a \in ModelAngles}
           \cup {p \in ModelAngles \X ModelAngles : p[1] # p[2]}

SwingDates == {AddDays(DefaultDate, k) : k \in 0..MaxDateShift}

(***************************************************************************)
(* Custom scaling logic                                                    *)
(***************************************************************************)
\* Divisor with every rung compared by > instead of >=
Divisor_Strict(P) ==
    IF P > 2 * 100000 THEN 3000
    ELSE IF P > 2 * 25000 THEN 500
    ELSE IF P > 2 * 10000 THEN 100
    ELSE IF P > 2 * 1000 THEN 10
    ELSE IF P > 2 * 500 THEN 2
    ELSE 1

\* Divisor with the rung of 2 starting at 200 instead of 500
Divisor_LowRung(P) ==
    IF P >= 2 * 100000 THEN 3000
    ELSE IF P >= 2 * 25000 THEN 500
    ELSE IF P >= 2 * 10000 THEN 100
    ELSE IF P >= 2 * 1000 THEN 10
    ELSE IF P >= 2 * 200 THEN 2
    ELSE 1

\* The divisor ladder of scale_price; P is the price in half units, so the
\* threshold t of the code is 2 * t here.
Divisor(P) ==
    IF P >= 2 * 100000 THEN 3000
    ELSE IF P >= 2 * 25000 THEN 500
    ELSE IF P >= 2 * 10000 THEN 100
    ELSE IF P >= 2 * 1000 THEN 10
    ELSE IF P >= 2 * 500 THEN 2
    ELSE 1

\* price / d as the rational <<numerator, denominator>> = <<P, 2 * d>>
Quotient(P, d) == <<P, 2 * d>>

\* scale_price(price) = (price / d, d)
scale_price(P) == LET d == Divisor(P) IN <<Quotient(P, d), d>>

(***************************************************************************)
(* np.sin(np.deg2rad(ang)) and int(round(days))                            *)
(***************************************************************************)
\* The double np.sin(np.deg2rad(a)) to six decimals, in millionths
SinE6 ==
    [a \in {15, 21, 28, 30, 45, 49, 55, 60, 72, 81, 90, 99, 120, 144, 180} |->
        CASE a = 15 -> 258819 [] a = 21 -> 358368 [] a = 28 -> 469472
          [] a = 30 -> 500000 [] a = 45 -> 707107 [] a = 49 -> 754710
          [] a = 55 -> 819152 [] a = 60 -> 866025 [] a = 72 -> 951057
          [] a = 81 -> 987688 [] a = 90 -> 1000000 [] a = 99 -> 987688
          [] a = 120 -> 866025 [] a = 144 -> 587785 [] a = 180 -> 0]

\* The sign of (the double) - SinE6 / 1000000: only sin(90 deg) is the table's
\* value exactly; sin(30 deg) is 0.49999999999999994 and sin(180 deg) is
\* 1.2246467991473532e-16.
SinErr ==
    [a \in {15, 21, 28, 30, 45, 49, 55, 60, 72, 81, 90, 99, 120, 144, 180} |->
        IF a = 90 THEN 0
        ELSE IF a \in {15, 55, 60, 81, 99, 120, 144, 180} THEN 1 ELSE -1]

Sign(x) == IF x > 0 THEN 1 ELSE IF x < 0 THEN -1 ELSE 0

\* round(N / D) with an exact half rounded away from zero
RoundHalfAway(N, D, bias) ==
    LET q == N \div D
        r == N - q * D
    IN IF 2 * r < D THEN q
       ELSE IF 2 * r > D THEN q + 1
       ELSE IF bias > 0 THEN q + 1
       ELSE IF bias < 0 THEN q
       ELSE IF N >= 0 THEN q + 1 ELSE q

\* round(N / D) for D > 0, as Python 3 and numpy round a float: to the nearest
\* integer, an exact half to the even neighbour.  bias is the sign of what
\* the table left out of the product; it moves a half of the table off the
\* half.
RoundHalfEven(N, D, bias) ==
    LET q == N \div D
        r == N - q * D
    IN IF 2 * r < D THEN q
       ELSE IF 2 * r > D THEN q + 1
       ELSE IF bias > 0 THEN q + 1
       ELSE IF bias < 0 THEN q
       ELSE IF q % 2 = 0 THEN q ELSE q + 1

\* days_r = int(round(scaled * np.sin(rad))) for scaled = <<num, den>>.  On
\* the prices of the model the table and the sign decide the rounding as the
\* doubles do.
DaysRounded(scaled, ang) ==
    RoundHalfEven(scaled[1] * SinE6[ang], scaled[2] * 1000000,
                  Sign(scaled[1]) * SinErr[ang])

(***************************************************************************)
(* Compute cycles                                                          *)
(***************************************************************************)
\* the row of one swing and one angle
Projection(s, ang) ==
    LET sc == scale_price(s.price)
        days_r == DaysRounded(sc[1], ang)
    IN [Swing |-> s.name, Price |-> s.price, Scaled |-> sc[1], Divisor |-> sc[2],
        Angle |-> ang, Days |-> days_r, CycleDate |-> AddDays(s.date, days_r)]

\* the inner loop: one row per selected angle, in the order of the selection
RECURSIVE AngleRows(_, _)
AngleRows(s, angs) ==
    IF angs = <<>> THEN <<>>
    ELSE <<Projection(s, Head(angs))>> \o AngleRows(s, Tail(angs))

\* the skip the comment above the test describes: "skip if not positive"
IsNone_NotPositive(price) == price <= 0

\* price is None: s["price"] is float(st.number_input(...)), a float in
\* every run, so the test is false of every swing
IsNone(price) == FALSE

\* the outer loop: swing-major; a swing whose price is None is skipped
RECURSIVE ComputeRows(_, _)
ComputeRows(ss, angs) ==
    IF ss = <<>> THEN <<>>
    ELSE (IF IsNone(Head(ss).price) THEN <<>> ELSE AngleRows(Head(ss), angs))
         \o ComputeRows(Tail(ss), angs)

(***************************************************************************)
(* df.sort_values("Cycle Date").reset_index(drop=True)                     *)
(***************************************************************************)
MinDate(r, S) == {i \in S : \A j \in S : r[i].CycleDate <= r[j].CycleDate}

\* the frame left in the order of emission
SortedFrames_Unsorted(r) == {r}

\* Index orders sort_values may produce.  Its default kind is "quicksort",
\* which pandas documents as not stable: rows of equal Cycle Date come out in
\* any order.
RECURSIVE SortOrders(_, _)
SortOrders(r, S) ==
    IF S = {} THEN {<<>>}
    ELSE UNION {{<<i>> \o t : t \in SortOrders(r, S \ {i})} : i \in MinDate(r, S)}

SortedFrames(r) == {[k \in 1..Len(r) |-> r[o[k]]] : o \in SortOrders(r, 1..Len(r))}

(***************************************************************************)
(* Cross-swing cluster detection                                           *)
(***************************************************************************)
\* the count without abs(): every later row is counted
WindowCount_NoAbs(d, i, w) ==
    Cardinality({j \in 1..Len(d) : DaysBetween(d[i].CycleDate, d[j].CycleDate) <= w})

\* the count with < in place of <=
WindowCount_Strict(d, i, w) ==
    Cardinality({j \in 1..Len(d) : Abs(DaysBetween(d[i].CycleDate, d[j].CycleDate)) < w})

\* the count of the loop over j for row i
WindowCount(d, i, w) ==
    Cardinality({j \in 1..Len(d) : Abs(DaysBetween(d[i].CycleDate, d[j].CycleDate)) <= w})

ClusterFlags(d, w) == [i \in 1..Len(d) |-> WindowCount(d, i, w) >= 2]

\* df["Cluster"] and df["Cluster Count"]
Annotate(d, flags, w) ==
    [i \in 1..Len(d) |->
        d[i] @@ [Cluster |-> IF flags[i] THEN "YES" ELSE "",
                 ClusterCount |-> WindowCount(d, i, w)]]

(***************************************************************************)
(* Display, clustered rows, CSV, summary                                   *)
(***************************************************************************)
Min(a, b) == IF a < b THEN a ELSE b

\* d.head(n)
HeadRows(d, n) == SubSeq(d, 1, Min(n, Len(d)))

TableView(d) ==
    [i \in 1..Len(d) |->
        [Swing |-> d[i].Swing, Days |-> d[i].Days, CycleDate |-> d[i].CycleDate,
         Cluster |-> d[i].Cluster, ClusterCount |-> d[i].ClusterCount]]

IsClustered(row) == row.Cluster = "YES"

\* the clustered rows taken from the rows the main table shows
ClusteredRows_Shown(d) ==
    SelectSeq(SubSeq(d, 1, IF max_table_rows < Len(d) THEN max_table_rows ELSE Len(d)),
              IsClustered)

\* df[df["Cluster"] == "YES"], sorted again (already in date order)
ClusteredRows(d) == SelectSeq(d, IsClustered)

CsvHeader ==
    <<"Swing", "Price", "Scaled Price", "Divisor", "Angle", "Days", "Cycle Date",
      "Cluster", "Cluster Count">>

\* df.to_csv(index=False): the header, then one line per row of df, the
\* Cycle Date written as year-month-day
ToCsv(d) ==
    [shown |-> TRUE, header |-> CsvHeader,
     lines |-> [i \in 1..Len(d) |->
        <<d[i].Swing, d[i].Price, d[i].Scaled, d[i].Divisor, d[i].Angle, d[i].Days,
          FromOrdinal(d[i].CycleDate), d[i].Cluster, d[i].ClusterCount>>]]

RECURSIVE MaxCount(_)
MaxCount(d) ==
    IF d = <<>> THEN 0
    ELSE LET m == MaxCount(Tail(d))
         IN IF Head(d).ClusterCount > m THEN Head(d).ClusterCount ELSE m

(***************************************************************************)
(* The run of the script                                                   *)
(***************************************************************************)
Init ==
    /\ pc = "swings"
    /\ swings = <<>>
    /\ selected_angles = <<>>
    /\ cluster_window = None
    /\ max_table_rows = None
    /\ rows = <<>>
    /\ df = <<>>
    /\ cluster_flags = <<>>
    /\ table = NotShown
    /\ cluster_df = NotShown
    /\ csv = NotShown
    /\ summary = NotShown
    /\ scale_in = None
    /\ scale_out = None

\* the three expanders: each appends its swing, price as float(number_input)
EnterSwings ==
    /\ pc = "swings"
    /\ \E p1 \in SwingPrices[1], p2 \in SwingPrices[2], p3 \in SwingPrices[3],
          d2 \in SwingDates :
          swings' = <<[name |-> 1, price |-> p1, date |-> DefaultDate],
                      [name |-> 2, price |-> p2, date |-> d2],
                      [name |-> 3, price |-> p3, date |-> DefaultDate]>>
    /\ pc' = "angles"
    /\ UNCHANGED <<selected_angles, cluster_window, max_table_rows, rows, df,
                   cluster_flags, table, cluster_df, csv, summary, scale_in, scale_out>>

\* st.multiselect
SelectAngles ==
    /\ pc = "angles"
    /\ \E sel \in AngleChoices : selected_angles' = sel
    /\ pc' = "check"
    /\ UNCHANGED <<swings, cluster_window, max_table_rows, rows, df,
                   cluster_flags, table, cluster_df, csv, summary, scale_in, scale_out>>

\* the empty-angle test without its st.stop()
CheckAngles_NoStop ==
    /\ pc = "check"
    /\ pc' = "settings"
    /\ UNCHANGED <<swings, selected_angles, cluster_window, max_table_rows, rows, df,
                   cluster_flags, table, cluster_df, csv, summary, scale_in, scale_out>>

\* if not selected_angles: st.warning(...); st.stop()
CheckAngles ==
    /\ pc = "check"
    /\ pc' = IF selected_angles = <<>> THEN "stopped" ELSE "settings"
    /\ UNCHANGED <<swings, selected_angles, cluster_window, max_table_rows, rows, df,
                   cluster_flags, table, cluster_df, csv, summary, scale_in, scale_out>>

\* the two number_inputs of the cluster settings
ClusterSettings ==
    /\ pc = "settings"
    /\ \E w \in MinWindow..MaxWindow, m \in MinTableRows..MaxTableRows :
          /\ cluster_window' = w
          /\ max_table_rows' = m
    /\ pc' = "compute"
    /\ UNCHANGED <<swings, selected_angles, rows, df,
                   cluster_flags, table, cluster_df, csv, summary, scale_in, scale_out>>

\* the loops over swings and angles, then: if len(rows) == 0: st.stop()
ComputeCycles ==
    /\ pc = "compute"
    /\ rows' = ComputeRows(swings, selected_angles)
    /\ pc' = IF Len(rows') = 0 THEN "stopped" ELSE "sort"
    /\ UNCHANGED <<swings, selected_angles, cluster_window, max_table_rows, df,
                   cluster_flags, table, cluster_df, csv, summary, scale_in, scale_out>>

\* df = pd.DataFrame(rows); df = df.sort_values("Cycle Date").reset_index(drop=True)
SortFrame ==
    /\ pc = "sort"
    /\ df' \in SortedFrames(rows)
    /\ pc' = "cluster"
    /\ UNCHANGED <<swings, selected_angles, cluster_window, max_table_rows, rows,
                   cluster_flags, table, cluster_df, csv, summary, scale_in, scale_out>>

\* the loop filling cluster_flags, then the columns Cluster and Cluster Count
DetectClusters ==
    /\ pc = "cluster"
    /\ cluster_flags' = ClusterFlags(df, cluster_window)
    /\ df' = Annotate(df, cluster_flags', cluster_window)
    /\ pc' = "display"
    /\ UNCHANGED <<swings, selected_angles, cluster_window, max_table_rows, rows,
                   table, cluster_df, csv, summary, scale_in, scale_out>>

\* st.dataframe(df[[...]].head(int(max_table_rows)))
DisplayTable ==
    /\ pc = "display"
    /\ table' = [shown |-> TRUE, rows |-> HeadRows(TableView(df), max_table_rows)]
    /\ pc' = "clustered"
    /\ UNCHANGED <<swings, selected_angles, cluster_window, max_table_rows, rows, df,
                   cluster_flags, cluster_df, csv, summary, scale_in, scale_out>>

\* cluster_df = df[df["Cluster"] == "YES"]; st.table(...) unless it is empty
ShowClustered ==
    /\ pc = "clustered"
    /\ cluster_df' = [shown |-> TRUE, rows |-> ClusteredRows(df)]
    /\ pc' = "export"
    /\ UNCHANGED <<swings, selected_angles, cluster_window, max_table_rows, rows, df,
                   cluster_flags, table, csv, summary, scale_in, scale_out>>

\* csv = df.to_csv(index=False); st.download_button(...)
ExportCsv ==
    /\ pc = "export"
    /\ csv' = ToCsv(df)
    /\ pc' = "summary"
    /\ UNCHANGED <<swings, selected_angles, cluster_window, max_table_rows, rows, df,
                   cluster_flags, table, cluster_df, summary, scale_in, scale_out>>

\* "Computed {len(df)} cycle projections from ...", then the max cluster size
\* (maxCluster 0: no cluster, the size is not reported)
Summarize ==
    /\ pc = "summary"
    /\ summary' = [shown |-> TRUE, projections |-> Len(df), swings |-> Len(swings),
                   angles |-> Len(selected_angles),
                   maxCluster |-> IF cluster_df.rows # <<>> THEN MaxCount(cluster_df.rows)
                                  ELSE 0]
    /\ pc' = "done"
    /\ UNCHANGED <<swings, selected_angles, cluster_window, max_table_rows, rows, df,
                   cluster_flags, table, cluster_df, csv, scale_in, scale_out>>

Next ==
    \/ EnterSwings
    \/ SelectAngles
    \/ CheckAngles
    \/ ClusterSettings
    \/ ComputeCycles
    \/ SortFrame
    \/ DetectClusters
    \/ DisplayTable
    \/ ShowClustered
    \/ ExportCsv
    \/ Summarize

Spec == Init /\ [][Next]_vars

(***************************************************************************)
(* scale_price on its own: one call on a price near a rung of the ladder   *)
(***************************************************************************)
Rungs == {0, 500, 1000, 10000, 25000, 100000}

ScalePrices == UNION {(2 * t - ScaleSpread)..(2 * t + ScaleSpread) : t \in Rungs}

InitScale ==
    /\ pc = "scale"
    /\ scale_in \in ScalePrices
    /\ scale_out = None
    /\ swings = <<>>
    /\ selected_angles = <<>>
    /\ cluster_window = None
    /\ max_table_rows = None
    /\ rows = <<>>
    /\ df = <<>>
    /\ cluster_flags = <<>>
    /\ table = NotShown
    /\ cluster_df = NotShown
    /\ csv = NotShown
    /\ summary = NotShown

ApplyScale ==
    /\ pc = "scale"
    /\ scale_out' = scale_price(scale_in)
    /\ pc' = "scaled"
    /\ UNCHANGED <<swings, selected_angles, cluster_window, max_table_rows, rows, df,
                   cluster_flags, table, cluster_df, csv, summary, scale_in>>

NextScale == ApplyScale

SpecScale == InitScale /\ [][NextScale]_vars

(***************************************************************************)
(* Properties                                                              *)
(***************************************************************************)
AfterCompute == {"sort", "cluster", "display", "clustered", "export", "summary", "done"}
AfterSort == {"cluster", "display", "clustered", "export", "summary", "done"}
AfterAnnotate == {"display", "clustered", "export", "summary", "done"}

\* the fields of a row as emitted, without the cluster columns
Core(row) ==
    [Swing |-> row.Swing, Price |-> row.Price, Scaled |-> row.Scaled,
     Divisor |-> row.Divisor, Angle |-> row.Angle, Days |-> row.Days,
     CycleDate |-> row.CycleDate]

\* where a row of df was emitted
Emitted(row) == CHOOSE k \in 1..Len(rows) : rows[k] = Core(row)

\* the rows of d within w days of row i, row i among them
Near(d, i, w) ==
    {j \in 1..Len(d) : d[j].CycleDate - d[i].CycleDate \in (0 - w)..w}

\* C1: scale_price(p) returns (p / d, d) with d the first matching rung of the
\* ladder 100000 -> 3000, 25000 -> 500, 10000 -> 100, 1000 -> 10, 500 -> 2,
\* otherwise 1 (zero and negative prices too), so d is one of
\* 1, 2, 10, 100, 500, 3000 and scaled * d = p.
C1_ScaleLadder ==
    pc = "scaled" =>
        LET P == scale_in
            q == scale_out[1]
            d == scale_out[2]
        IN /\ (P >= 200000) => d = 3000
           /\ (P < 200000 /\ P >= 50000) => d = 500
           /\ (P < 50000 /\ P >= 20000) => d = 100
           /\ (P < 20000 /\ P >= 2000) => d = 10
           /\ (P < 2000 /\ P >= 1000) => d = 2
           /\ (P < 1000) => d = 1
           /\ d \in {1, 2, 10, 100, 500, 3000}
           /\ q[2] > 0
           /\ 2 * q[1] * d = P * q[2]

C1_Witness ==
    /\ pc = "scaled"
    /\ scale_in = 2 * 25000
    /\ scale_out[2] = 500

\* C2: after the annotation every row's Cluster Count is the number of rows
\* (itself included) whose cycle date is within cluster_window days of its
\* own, pair by pair; it is at least 1, and Cluster is "YES" exactly when it
\* is at least 2.
C2_PairwiseCount ==
    pc \in AfterAnnotate =>
        \A i \in 1..Len(df) :
            /\ df[i].ClusterCount = Cardinality(Near(df, i, cluster_window))
            /\ df[i].ClusterCount >= 1
            /\ (df[i].Cluster = "YES") <=> (df[i].ClusterCount >= 2)
            /\ df[i].Cluster \in {"YES", ""}
            /\ cluster_flags[i] <=> (df[i].ClusterCount >= 2)

\* dates d, d + w, d + 2w: counts 2, 3, 2
C2_Witness ==
    /\ pc \in AfterAnnotate
    /\ Len(df) = 3
    /\ df[2].CycleDate = df[1].CycleDate + cluster_window
    /\ df[3].CycleDate = df[2].CycleDate + cluster_window
    /\ <<df[1].ClusterCount, df[2].ClusterCount, df[3].ClusterCount>> = <<2, 3, 2>>

C4_SortedPermutation ==
    pc \in AfterSort =>
        /\ Len(df) = Len(rows)
        /\ \A i \in 1..(Len(df) - 1) : df[i].CycleDate <= df[i + 1].CycleDate
        /\ \A k \in 1..Len(rows) :
              Cardinality({i \in 1..Len(df) : Core(df[i]) = rows[k]}) = 1

\* the sort moved a row
C4_Witness ==
    /\ pc \in AfterSort
    /\ \E i \in 1..Len(df) : Core(df[i]) # rows[i]

\* C5: the sort is stable: rows of equal cycle date keep their order of
\* emission.
C5_StableSort ==
    pc \in AfterSort =>
        \A i \in 1..Len(df) : \A j \in 1..Len(df) :
            (i < j /\ df[i].CycleDate = df[j].CycleDate) => Emitted(df[i]) < Emitted(df[j])

\* C6: when cluster_window is at least the span from the earliest to the
\* latest cycle date, every row is clustered and counts all n rows.
C6_FullSpan ==
    (pc \in AfterAnnotate /\ df[Len(df)].CycleDate - df[1].CycleDate <= cluster_window) =>
        \A i \in 1..Len(df) : df[i].Cluster = "YES" /\ df[i].ClusterCount = Len(df)

\* the window is exactly the span, which is not zero
C6_Witness ==
    /\ pc \in AfterAnnotate
    /\ df[Len(df)].CycleDate - df[1].CycleDate = cluster_window
    /\ \A i \in 1..Len(df) : df[i].ClusterCount = Len(df)

\* the swing of the example: price 210 anchored at 2025-04-07, at 90 degrees
ExampleRows ==
    {k \in 1..Len(rows) :
        /\ rows[k].Swing = 1
        /\ rows[k].Price = 2 * 210
        /\ rows[k].Angle = 90
        /\ swings[1].date = ToOrdinal(2025, 4, 7)}

\* C7 as amended: price 210 is below 500, so its divisor is 1: the scaled
\* price is 210.0, the day offset 210 and the cycle date 2025-11-03.
C7_Example ==
    pc \in AfterCompute =>
        \A k \in ExampleRows :
            /\ rows[k].Divisor = 1
            /\ rows[k].Scaled[1] = 210 * rows[k].Scaled[2]
            /\ rows[k].Days = 210
            /\ FromOrdinal(rows[k].CycleDate) = <<2025, 11, 3>>

C7_Witness == pc \in AfterCompute /\ ExampleRows # {}

\* C7 as stated: scaled price 105.0 (210 / 2), day offset 105, cycle date
\* 2025-07-21.
C7_AsStated ==
    pc \in AfterCompute =>
        \A k \in ExampleRows :
            /\ rows[k].Scaled[1] = 105 * rows[k].Scaled[2]
            /\ rows[k].Days = 105
            /\ FromOrdinal(rows[k].CycleDate) = <<2025, 7, 21>>

\* the rows at 90 degrees whose scaled price is a whole number and a half
HalfRows ==
    {k \in 1..Len(rows) :
        /\ rows[k].Angle = 90
        /\ (2 * rows[k].Scaled[1]) % rows[k].Scaled[2] = 0
        /\ ((2 * rows[k].Scaled[1]) \div rows[k].Scaled[2]) % 2 = 1}

\* twice the scaled price of a row of HalfRows: 2k + 1 or -(2k + 1)
Doubled(row) == (2 * row.Scaled[1]) \div row.Scaled[2]

\* C8 as amended: at 90 degrees a scaled price of k + 0.5 (k >= 0) gives the
\* even one of k and k + 1 as day offset, and -(k + 0.5) gives the even one
\* of -k and -(k + 1): halves go to the even neighbour.
C8_HalfToEven ==
    pc \in AfterCompute =>
        \A r \in HalfRows :
            LET t == Doubled(rows[r])
                k == (Abs(t) - 1) \div 2
                n == IF k % 2 = 1 THEN k + 1 ELSE k
            IN rows[r].Days = IF t > 0 THEN n ELSE 0 - n

\* 210.5 at 90 degrees gives 210
C8_Witness ==
    /\ pc \in AfterCompute
    /\ \E r \in HalfRows : Doubled(rows[r]) = 421 /\ rows[r].Days = 210

\* C8 as stated: halves go away from zero: k + 0.5 gives k + 1 and -(k + 0.5)
\* gives -(k + 1).
C8_AsStated ==
    pc \in AfterCompute =>
        \A r \in HalfRows :
            LET t == Doubled(rows[r])
                k == (Abs(t) - 1) \div 2
            IN rows[r].Days = IF t > 0 THEN k + 1 ELSE 0 - (k + 1)

\* C9: with no angle selected the run stops before anything is computed or
\* shown; a run that gets past the angle test has an angle, is never stopped
\* later, and at its end has computed, sorted, annotated and shown everything.
C9_EmptyAnglesStop ==
    /\ pc = "stopped" =>
          /\ selected_angles = <<>>
          /\ rows = <<>> /\ df = <<>> /\ cluster_flags = <<>>
          /\ ~table.shown /\ ~cluster_df.shown
          /\ ~csv.shown /\ ~summary.shown
    /\ pc \in {"settings", "compute"} \cup AfterCompute => selected_angles # <<>>
    /\ pc = "done" =>
          /\ rows # <<>> /\ Len(df) = Len(rows) /\ Len(cluster_flags) = Len(rows)
          /\ table.shown /\ cluster_df.shown
          /\ csv.shown /\ summary.shown

C9_Witness == pc = "stopped" /\ selected_angles = <<>> /\ Len(swings) = 3

\* C10: max_table_rows cuts the main table only: the counts are taken over
\* all rows, and the clustered rows, the CSV and the summary come from the
\* whole frame.
C10_DisplayOnly ==
    pc = "done" =>
        LET n == Len(swings) * Len(selected_angles)
            shown == IF max_table_rows < n THEN max_table_rows ELSE n
            yes == {i \in 1..n : df[i].Cluster = "YES"}
        IN /\ Len(df) = n
           /\ \A i \in 1..n : df[i].ClusterCount = Cardinality(Near(df, i, cluster_window))
           /\ Len(table.rows) = shown
           /\ \A i \in 1..shown :
                 /\ table.rows[i].Swing = df[i].Swing /\ table.rows[i].Days = df[i].Days
                 /\ table.rows[i].CycleDate = df[i].CycleDate
                 /\ table.rows[i].Cluster = df[i].Cluster
                 /\ table.rows[i].ClusterCount = df[i].ClusterCount
           /\ Len(cluster_df.rows) = Cardinality(yes)
           /\ \A i \in yes : \E c \in 1..Len(cluster_df.rows) : cluster_df.rows[c] = df[i]
           /\ \A c \in 1..Len(cluster_df.rows) : cluster_df.rows[c].Cluster = "YES"
           /\ Len(csv.lines) = n
           /\ \A i \in 1..n :
                 /\ csv.lines[i][1] = df[i].Swing /\ csv.lines[i][5] = df[i].Angle
                 /\ csv.lines[i][8] = df[i].Cluster
                 /\ csv.lines[i][9] = df[i].ClusterCount
           /\ summary.projections = n
           /\ yes # {} =>
                 /\ \A i \in yes : summary.maxCluster >= df[i].ClusterCount
                 /\ \E i \in yes : summary.maxCluster = df[i].ClusterCount

\* the table is cut, and a clustered row that counts it is below the cut
C10_Witness ==
    /\ pc = "done"
    /\ Len(df) > max_table_rows
    /\ Len(table.rows) = max_table_rows
    /\ df[Len(df)].Cluster = "YES"
    /\ cluster_df.rows[Len(cluster_df.rows)] = df[Len(df)]

====
